---- MODULE Spec2Model ----
(***************************************************************************)
(* Model of ports/nxp_lpc546/pin.c: the Pin class of the LPC546xx port.    *)
(*                                                                         *)
(*  - pin_find            resolves a user object to a pin object           *)
(*  - pin_mapper / pin_map_dict / pin_debug / pin_init0                    *)
(*                        maintain the class-wide registry                 *)
(*  - pin_obj_init_helper validates a configuration and programs IOCON,    *)
(*                        the clock gates and the GPIO direction / level   *)
(*                                                                         *)
(* Every MicroPython object (mp_obj_t) is a record [t, v]: t is the type   *)
(* of the object, v tells objects of one type apart.                       *)
(***************************************************************************)
EXTENDS Integers, Sequences, FiniteSets, Bags, TLC

VARIABLES
    pin_class_mapper,     \* MP_STATE_PORT(pin_class_mapper)
    pin_class_map_dict,   \* MP_STATE_PORT(pin_class_map_dict)
    pin_class_debug,      \* STATIC bool pin_class_debug
    clocks,               \* clock gates that are enabled (clock_ip_name_t values)
    iocon,                \* IOCON->PIO[port][pin], by pin object
    DIR,                  \* GPIO->DIR[port], the set of pin bits that are 1
    B,                    \* GPIO->B[port][pin], output level by pin object
    hwlog,                \* hardware accesses issued by the last call, in order
    last,                 \* the last call: its name, arguments and outcome
    before                \* history: the last pin_find made with no dict installed

registry == <<pin_class_mapper, pin_class_map_dict, pin_class_debug>>
hw       == <<clocks, iocon, DIR, B>>
vars     == <<pin_class_mapper, pin_class_map_dict, pin_class_debug,
              clocks, iocon, DIR, B, hwlog, last, before>>

----------------------------------------------------------------------------
(* Objects *)

mp_const_none == [t |-> "none", v |-> ""]
MP_OBJ_NULL   == [t |-> "null", v |-> ""]
mp_const_true  == [t |-> "bool", v |-> "True"]
mp_const_false == [t |-> "bool", v |-> "False"]

PinObj(n) == [t |-> "pin", v |-> n]
Str(s)    == [t |-> "str", v |-> s]
SmallInt(s) == [t |-> "int", v |-> s]
Fun(s)    == [t |-> "fun", v |-> s]
Dict(s)   == [t |-> "dict", v |-> s]

MP_OBJ_IS_TYPE(o, type) == o.t = type

mp_obj_is_true(o) == o \notin {mp_const_false, mp_const_none, SmallInt("0")}

(* The pin objects of the board: name, port and pin within the port. *)
PinNames == {"P0_4", "P0_5", "P4_1"}
PinObjs  == {PinObj(n) : n \in PinNames}
PinPort(p) == IF p.v = "P4_1" THEN 4 ELSE 0
PinPin(p)  == CASE p.v = "P0_4" -> 4 [] p.v = "P0_5" -> 5 [] OTHER -> 1

(* pin_board_pins_locals_dict and pin_cpu_pins_locals_dict: name -> pin.   *)
(* "P4_1" is a board name of one pin and the cpu name of another, so that  *)
(* the order of the two catalogs shows.                                    *)
pin_board_pins_locals_dict ==
    {<<Str("X1"), PinObj("P0_4")>>, <<Str("P4_1"), PinObj("P0_4")>>}
pin_cpu_pins_locals_dict ==
    {<<Str("P0_4"), PinObj("P0_4")>>, <<Str("P4_1"), PinObj("P4_1")>>}

(* mp_map_lookup(map, key, MP_MAP_LOOKUP): the value stored under key, or  *)
(* MP_OBJ_NULL when the map has no such key.                               *)
mp_map_lookup(map, key) ==
    IF \E e \in map : e[1] = key
    THEN (CHOOSE e \in map : e[1] = key)[2]
    ELSE MP_OBJ_NULL

(* pin_find_named_pin(named_pins, name): the pin of that name or NULL. *)
pin_find_named_pin(named_pins, name) == mp_map_lookup(named_pins, name)

(* mp_obj_str_get_str(o): the characters of a str object; any other object *)
(* is refused with a TypeError.                                            *)
mp_obj_str_get_str(o) ==
    IF MP_OBJ_IS_TYPE(o, "str") THEN [ok |-> TRUE, s |-> o.v]
    ELSE [ok |-> FALSE, s |-> "TypeError"]

----------------------------------------------------------------------------
(* What the user can install and ask for *)

(* User mapper functions: the body of each, as mp_call_function_1 runs it. *)
Mappers == {Fun("MapNone"), Fun("MapPin"), Fun("MapBad")}
mp_call_function_1(f, x) ==
    CASE f.v = "MapPin" ->
            IF x = Str("LeftMotorDir") THEN PinObj("P4_1")
            ELSE IF x = Str("X1") THEN PinObj("P4_1")
            ELSE IF x = SmallInt("7") THEN PinObj("P0_4")
            ELSE mp_const_none
      [] f.v = "MapBad" ->
            IF x = Str("LeftMotorDir") THEN SmallInt("42")
            ELSE IF x = Str("K") THEN Str("P0_4")
            ELSE mp_const_none
      [] OTHER -> mp_const_none

(* User dictionaries: the entries of each. *)
Dicts == {Dict("D1"), Dict("D2")}
mp_obj_dict_get_map(d) ==
    CASE d.v = "D1" -> {<<Str("LeftMotorDir"), PinObj("P0_4")>>,
                        <<Str("X1"), PinObj("P4_1")>>,
                        <<SmallInt("7"), PinObj("P4_1")>>}
      [] d.v = "D2" -> {<<Str("K"), SmallInt("42")>>,
                        <<Str("Motor2"), PinObj("P4_1")>>,
                        <<SmallInt("8"), PinObj("P0_4")>>}
      [] OTHER -> {}

(* Objects handed to pin_find. *)
Identifiers ==
    PinObjs \cup {Str("X1"), Str("P0_4"), Str("P4_1"), Str("LeftMotorDir"),
                  Str("K"), Str("Motor2"), Str("nope"),
                  SmallInt("7"), SmallInt("8"), SmallInt("9")}

----------------------------------------------------------------------------
(* pin_find *)

(* The outcome of a call of pin_find: status "ok" and the object returned, *)
(* or the error raised; the strategies it consulted, in order; the debug   *)
(* line it printed.                                                        *)
Outcome(status, value, consulted, printed) ==
    [status |-> status, value |-> value, consulted |-> consulted,
     printed |-> printed]

Printed(debug, line) == IF debug THEN line ELSE ""

(* Lines 166-179: the cpu pins, then the ValueError. *)
pin_find_cpu(debug, user_obj, seen) ==
    LET pin_obj == pin_find_named_pin(pin_cpu_pins_locals_dict, user_obj)
        c == Append(seen, "cpu")
        name == mp_obj_str_get_str(user_obj)
    IN  IF pin_obj # MP_OBJ_NULL
        THEN Outcome("ok", pin_obj, c, Printed(debug, "Pin.cpu maps"))
        ELSE IF name.ok
        THEN Outcome("InvalidIdentifier", Str(name.s), c, "")
        ELSE Outcome(name.s, user_obj, c, "")

(* Lines 153-164: the board pins. *)
pin_find_board(debug, user_obj, seen) ==
    LET pin_obj == pin_find_named_pin(pin_board_pins_locals_dict, user_obj)
        c == Append(seen, "board")
    IN  IF pin_obj # MP_OBJ_NULL
        THEN Outcome("ok", pin_obj, c, Printed(debug, "Pin.board maps"))
        ELSE pin_find_cpu(debug, user_obj, c)

(* Lines 137-151: the user dictionary. *)
pin_find_dict(map_dict, debug, user_obj, seen) ==
    IF map_dict # mp_const_none
    THEN LET elem == mp_map_lookup(mp_obj_dict_get_map(map_dict), user_obj)
             c == Append(seen, "dict")
         IN  IF elem # MP_OBJ_NULL
             THEN Outcome("ok", elem, c, Printed(debug, "Pin.map_dict maps"))
             ELSE pin_find_board(debug, user_obj, c)
    ELSE pin_find_board(debug, user_obj, seen)

(* Variants of the mapper strategy: the dictionary asked before the mapper, *)
(* and a none answer of the mapper taken for a wrong answer.               *)
pin_find_mapper_after_dict(mapper, map_dict, debug, user_obj, seen) ==
    LET elem == IF map_dict # mp_const_none
                THEN mp_map_lookup(mp_obj_dict_get_map(map_dict), user_obj)
                ELSE MP_OBJ_NULL
        pin_obj == IF mapper # mp_const_none
                   THEN mp_call_function_1(mapper, user_obj)
                   ELSE mp_const_none
    IN  IF elem # MP_OBJ_NULL
        THEN Outcome("ok", elem, Append(seen, "dict"),
                     Printed(debug, "Pin.map_dict maps"))
        ELSE IF pin_obj # mp_const_none
        THEN IF ~MP_OBJ_IS_TYPE(pin_obj, "pin")
             THEN Outcome("InvalidMapperResult", pin_obj, Append(seen, "mapper"), "")
             ELSE Outcome("ok", pin_obj, Append(seen, "mapper"),
                          Printed(debug, "Pin.mapper maps"))
        ELSE pin_find_board(debug, user_obj, seen)

pin_find_mapper_none_is_error(mapper, map_dict, debug, user_obj, seen) ==
    IF mapper # mp_const_none
    THEN LET pin_obj == mp_call_function_1(mapper, user_obj)
             c == Append(seen, "mapper")
         IN  IF ~MP_OBJ_IS_TYPE(pin_obj, "pin")
             THEN Outcome("InvalidMapperResult", pin_obj, c, "")
             ELSE Outcome("ok", pin_obj, c, Printed(debug, "Pin.mapper maps"))
    ELSE pin_find_dict(map_dict, debug, user_obj, seen)

(* Lines 118-135: the user mapper. *)
pin_find_mapper(mapper, map_dict, debug, user_obj, seen) ==
    IF mapper # mp_const_none
    THEN LET pin_obj == mp_call_function_1(mapper, user_obj)
             c == Append(seen, "mapper")
         IN  IF pin_obj # mp_const_none
             THEN IF ~MP_OBJ_IS_TYPE(pin_obj, "pin")
                  THEN Outcome("InvalidMapperResult", pin_obj, c, "")
                  ELSE Outcome("ok", pin_obj, c, Printed(debug, "Pin.mapper maps"))
             ELSE pin_find_dict(map_dict, debug, user_obj, c)
    ELSE pin_find_dict(map_dict, debug, user_obj, seen)

(* Lines 104-180. *)
pin_find(mapper, map_dict, debug, user_obj) ==
    IF MP_OBJ_IS_TYPE(user_obj, "pin")
    THEN Outcome("ok", user_obj, <<"pin">>, Printed(debug, "Pin map passed pin"))
    ELSE pin_find_mapper(mapper, map_dict, debug, user_obj, <<"pin">>)

----------------------------------------------------------------------------
(* Bit operations on unsigned words *)

(* A word is the set of the positions of its 1 bits and back. *)
WordBits == 0 .. 30
BitsOf(w) == {i \in WordBits : (w \div 2^i) % 2 = 1}
WordOf(bits) == BagCardinality([i \in bits |-> 2^i])

BitOr(a, b)  == WordOf(BitsOf(a) \cup BitsOf(b))
BitAnd(a, b) == WordOf(BitsOf(a) \cap BitsOf(b))

Shl(a, n) == a * 2^n
Bit(w, n) == (w \div 2^n) % 2
BoolInt(b) == IF b THEN 1 ELSE 0

----------------------------------------------------------------------------
(* Constants of the port and of the SDK *)

GPIO_MODE_INPUT     == 0
GPIO_MODE_OUTPUT_PP == 4096
GPIO_MODE_OUTPUT_OD == 6144
GPIO_MODE_AF_PP     == 8192
GPIO_MODE_AF_OD     == 10240
GPIO_MODE_ANALOG    == 16384

IOCON_MODE_INACT == 0
GPIO_PULLDOWN    == 16
GPIO_PULLUP      == 32
GPIO_REPEATER    == 48

IS_GPIO_MODE(m) ==
    m \in {GPIO_MODE_INPUT, GPIO_MODE_OUTPUT_PP, GPIO_MODE_OUTPUT_OD,
           GPIO_MODE_AF_PP, GPIO_MODE_AF_OD, GPIO_MODE_ANALOG}
IS_GPIO_PULL(p) ==
    p \in {IOCON_MODE_INACT, GPIO_PULLUP, GPIO_PULLDOWN, GPIO_REPEATER}

kCLOCK_Iocon == 13
kCLOCK_Gpio0 == 14
kCLOCK_Gpio4 == 521

----------------------------------------------------------------------------
(* Hardware *)

Ports  == {PinPort(p) : p \in PinObjs}
HwPins == {<<PinPort(p), PinPin(p)>> : p \in PinObjs}

(* One hardware access. *)
Access(reg, port, pin, val) == [reg |-> reg, port |-> port, pin |-> pin, val |-> val]

CLOCK_EnableClock(clk) == Access("CLOCK", 0, 0, clk)
IOCON_PinMuxSet(port, pin, modefunc) == Access("IOCON", port, pin, modefunc)
GPIO_WritePinOutput(port, pin, output) == Access("B", port, pin, output)
DIRCLR(port, mask) == Access("DIRCLR", port, 0, mask)
DIRSET(port, mask) == Access("DIRSET", port, 0, mask)

(* The effect of one access on the hardware state [clocks, iocon, DIR, B]. *)
Perform(h, a) ==
    CASE a.reg = "CLOCK"  -> [h EXCEPT !.clocks = @ \cup {a.val}]
      [] a.reg = "IOCON"  -> [h EXCEPT !.iocon[<<a.port, a.pin>>] = a.val]
      [] a.reg = "B"      -> [h EXCEPT !.B[<<a.port, a.pin>>] = a.val]
      [] a.reg = "DIRCLR" -> [h EXCEPT !.DIR[a.port] = @ - BitAnd(@, a.val)]
      [] a.reg = "DIRSET" -> [h EXCEPT !.DIR[a.port] = BitOr(@, a.val)]

RECURSIVE PerformAll(_, _)
PerformAll(h, as) ==
    IF as = <<>> THEN h ELSE PerformAll(Perform(h, Head(as)), Tail(as))

HwState == [clocks |-> clocks, iocon |-> iocon, DIR |-> DIR, B |-> B]

(* The hardware after reset. *)
HwReset == [clocks |-> {}, iocon |-> [p \in HwPins |-> 0],
            DIR |-> [p \in Ports |-> 0], B |-> [p \in HwPins |-> 0]]

----------------------------------------------------------------------------
(* pin_obj_init_helper *)

(* The parsed arguments (pin_init_t): pull is none or an integer. *)
NoPull    == [given |-> FALSE, n |-> 0]
Pull(n)   == [given |-> TRUE, n |-> n]
InitArgs(mode, pull, val0, alt, inv, flt) ==
    [mode |-> mode, pull |-> pull, val0 |-> val0, alt |-> alt, inv |-> inv,
     flt |-> flt]

(* Lines 346-349. *)
PullOf(args) == IF args.pull.given THEN args.pull.n ELSE IOCON_MODE_INACT

(* Line 367: the word handed to IOCON_PinMuxSet. *)
MuxWord(args, pull) ==
    BitOr(args.alt,
     BitOr(BitAnd(args.mode, 4095),
      BitOr(Shl(1, 8),
       BitOr(pull,
        BitOr(Shl(BoolInt(args.inv), 7), Shl(BoolInt(~args.flt), 9))))))

(* Variant: the second clock group indexed by the port itself. *)
GpioClock_no_offset(port) ==
    IF port < 4 THEN kCLOCK_Gpio0 + port ELSE kCLOCK_Gpio4 + port

(* Lines 371-374: the clock of the GPIO bank of a port. *)
GpioClock(port) ==
    IF port < 4 THEN kCLOCK_Gpio0 + port ELSE kCLOCK_Gpio4 + port - 4

(* Variants of the direction step: the direction set before the level is   *)
(* written, and an input request that leaves the direction alone.          *)
GpioDirection_level_after(self, args) ==
    IF args.mode = GPIO_MODE_INPUT
    THEN <<DIRCLR(PinPort(self), Shl(1, PinPin(self)))>>
    ELSE <<DIRSET(PinPort(self), Shl(1, PinPin(self)))>>
         \o (IF args.val0 # MP_OBJ_NULL
             THEN <<GPIO_WritePinOutput(PinPort(self), PinPin(self),
                                        BoolInt(mp_obj_is_true(args.val0)))>>
             ELSE <<>>)

GpioDirection_input_skipped(self, args) ==
    IF args.mode = GPIO_MODE_INPUT
    THEN <<>>
    ELSE (IF args.val0 # MP_OBJ_NULL
          THEN <<GPIO_WritePinOutput(PinPort(self), PinPin(self),
                                     BoolInt(mp_obj_is_true(args.val0)))>>
          ELSE <<>>)
         \o <<DIRSET(PinPort(self), Shl(1, PinPin(self)))>>

(* Variant: the initial value written for an input as well. *)
GpioDirection_input_writes_level(self, args) ==
    (IF args.val0 # MP_OBJ_NULL
     THEN <<GPIO_WritePinOutput(PinPort(self), PinPin(self),
                                BoolInt(mp_obj_is_true(args.val0)))>>
     ELSE <<>>)
    \o (IF args.mode = GPIO_MODE_INPUT
        THEN <<DIRCLR(PinPort(self), Shl(1, PinPin(self)))>>
        ELSE <<DIRSET(PinPort(self), Shl(1, PinPin(self)))>>)

(* Variant: the complement of the pin mask written to DIRCLR. *)
GpioDirection_clear_others(self, args) ==
    IF args.mode = GPIO_MODE_INPUT
    THEN <<DIRCLR(PinPort(self), WordOf(WordBits \ {PinPin(self)}))>>
    ELSE (IF args.val0 # MP_OBJ_NULL
          THEN <<GPIO_WritePinOutput(PinPort(self), PinPin(self),
                                     BoolInt(mp_obj_is_true(args.val0)))>>
          ELSE <<>>)
         \o <<DIRSET(PinPort(self), Shl(1, PinPin(self)))>>

(* Lines 376-384: direction and initial level of a GPIO pin. *)
GpioDirection(self, args) ==
    IF args.mode = GPIO_MODE_INPUT
    THEN <<DIRCLR(PinPort(self), Shl(1, PinPin(self)))>>
    ELSE (IF args.val0 # MP_OBJ_NULL
          THEN <<GPIO_WritePinOutput(PinPort(self), PinPin(self),
                                     BoolInt(mp_obj_is_true(args.val0)))>>
          ELSE <<>>)
         \o <<DIRSET(PinPort(self), Shl(1, PinPin(self)))>>

(* Variant: the GPIO steps taken whatever the alternate function. *)
GpioSelect_always(self, args) ==
    <<CLOCK_EnableClock(GpioClock(PinPort(self)))>> \o GpioDirection(self, args)

(* Lines 368-385. *)
GpioSelect(self, args) ==
    IF args.alt = 0
    THEN <<CLOCK_EnableClock(GpioClock(PinPort(self)))>> \o GpioDirection(self, args)
    ELSE <<>>

(* Lines 365-385: the accesses of a valid request, in program order. *)
InitAccesses(self, args, pull) ==
    <<CLOCK_EnableClock(kCLOCK_Iocon),
      IOCON_PinMuxSet(PinPort(self), PinPin(self), MuxWord(args, pull))>>
    \o GpioSelect(self, args)

(* Variant: the pull checked after the IOCON clock is enabled. *)
pin_obj_init_helper_late_check(self, args) ==
    IF ~IS_GPIO_MODE(args.mode)
    THEN [status |-> "InvalidMode", accesses |-> <<>>]
    ELSE IF ~IS_GPIO_PULL(PullOf(args))
    THEN [status |-> "InvalidPull",
          accesses |-> <<CLOCK_EnableClock(kCLOCK_Iocon)>>]
    ELSE [status |-> "ok", accesses |-> InitAccesses(self, args, PullOf(args))]

(* Lines 327-396: the status returned and the accesses made. *)
pin_obj_init_helper(self, args) ==
    IF ~IS_GPIO_MODE(args.mode)
    THEN [status |-> "InvalidMode", accesses |-> <<>>]
    ELSE IF ~IS_GPIO_PULL(PullOf(args))
    THEN [status |-> "InvalidPull", accesses |-> <<>>]
    ELSE [status |-> "ok", accesses |-> InitAccesses(self, args, PullOf(args))]

----------------------------------------------------------------------------
(* Arguments handed to init *)

ModeArgs == {GPIO_MODE_INPUT, GPIO_MODE_OUTPUT_PP, GPIO_MODE_OUTPUT_OD,
             GPIO_MODE_AF_PP, GPIO_MODE_AF_OD, GPIO_MODE_ANALOG, 5}
PullArgs == {NoPull, Pull(IOCON_MODE_INACT), Pull(GPIO_PULLDOWN),
             Pull(GPIO_PULLUP), Pull(GPIO_REPEATER), Pull(64)}
AltArgs  == {0, 2, 128}
ValArgs  == {MP_OBJ_NULL, mp_const_true, mp_const_false}

(* Every mode with every pull; then mode, initial value and alternate      *)
(* function together; then the inversion and filter flags.                 *)
InitArgSets ==
    {InitArgs(m, NoPull, MP_OBJ_NULL, 0, FALSE, FALSE) : m \in ModeArgs}
    \cup
    {InitArgs(m, p, MP_OBJ_NULL, 0, FALSE, FALSE) :
        m \in {GPIO_MODE_OUTPUT_PP, 5}, p \in PullArgs}
    \cup
    {InitArgs(x[1], NoPull, x[2], x[3], FALSE, FALSE) :
        x \in {GPIO_MODE_INPUT, GPIO_MODE_OUTPUT_PP, GPIO_MODE_AF_PP}
              \X ValArgs \X AltArgs}
    \cup
    {InitArgs(GPIO_MODE_OUTPUT_OD, Pull(GPIO_PULLUP), MP_OBJ_NULL, x[1], x[2], x[3]) :
        x \in AltArgs \X BOOLEAN \X BOOLEAN}

(* The requests made of the second pin. *)
FewArgSets ==
    {InitArgs(GPIO_MODE_INPUT, NoPull, mp_const_true, 0, FALSE, FALSE),
     InitArgs(GPIO_MODE_OUTPUT_PP, NoPull, mp_const_true, 0, FALSE, FALSE),
     InitArgs(GPIO_MODE_OUTPUT_PP, Pull(GPIO_PULLDOWN), MP_OBJ_NULL, 0, TRUE, TRUE),
     InitArgs(GPIO_MODE_AF_PP, NoPull, mp_const_false, 2, FALSE, FALSE),
     InitArgs(GPIO_MODE_AF_OD, Pull(64), MP_OBJ_NULL, 2, FALSE, FALSE),
     InitArgs(5, NoPull, mp_const_true, 0, FALSE, FALSE)}

----------------------------------------------------------------------------
(* State machine *)

NoFind == [valid |-> FALSE, arg |-> mp_const_none, mapper |-> mp_const_none,
           status |-> "", value |-> mp_const_none]

Init ==
    /\ pin_class_mapper = mp_const_none
    /\ pin_class_map_dict = mp_const_none
    /\ pin_class_debug = FALSE
    /\ clocks = HwReset.clocks
    /\ iocon = HwReset.iocon
    /\ DIR = HwReset.DIR
    /\ B = HwReset.B
    /\ hwlog = <<>>
    /\ last = [op |-> "reset"]
    /\ before = NoFind

(* pin_init0, lines 97-101. *)
PinInit0 ==
    /\ pin_class_mapper' = mp_const_none
    /\ pin_class_map_dict' = mp_const_none
    /\ pin_class_debug' = FALSE
    /\ hwlog' = <<>>
    /\ last' = [op |-> "init0"]
    /\ UNCHANGED <<hw, before>>

(* Pin(id): mp_pin_make_new without a configuration, lines 243-257. *)
PinFind(user_obj) ==
    LET r == pin_find(pin_class_mapper, pin_class_map_dict, pin_class_debug,
                      user_obj)
    IN  /\ last' = [op |-> "find", arg |-> user_obj, res |-> r]
        /\ before' = IF pin_class_map_dict = mp_const_none
                     THEN [valid |-> TRUE, arg |-> user_obj,
                           mapper |-> pin_class_mapper,
                           status |-> r.status, value |-> r.value]
                     ELSE before
        /\ hwlog' = <<>>
        /\ UNCHANGED <<registry, hw>>

(* Pin.mapper([fun]), lines 275-281. *)
PinMapper(n_args, arg) ==
    /\ pin_class_mapper' = IF n_args > 1 THEN arg ELSE pin_class_mapper
    /\ last' = [op |-> "mapper", n_args |-> n_args, arg |-> arg,
                res |-> IF n_args > 1 THEN mp_const_none ELSE pin_class_mapper]
    /\ hwlog' = <<>>
    /\ UNCHANGED <<pin_class_map_dict, pin_class_debug, hw, before>>

(* Variant: none is not taken for a dictionary, the old one stays. *)
PinMapDict_none_ignored(n_args, arg) ==
    /\ pin_class_map_dict' = IF n_args > 1 /\ arg # mp_const_none
                             THEN arg ELSE pin_class_map_dict
    /\ last' = [op |-> "dict", n_args |-> n_args, arg |-> arg,
                res |-> IF n_args > 1 THEN mp_const_none ELSE pin_class_map_dict]
    /\ hwlog' = <<>>
    /\ UNCHANGED <<pin_class_mapper, pin_class_debug, hw, before>>

(* Pin.dict([dict]), lines 287-293. *)
PinMapDict(n_args, arg) ==
    /\ pin_class_map_dict' = IF n_args > 1 THEN arg ELSE pin_class_map_dict
    /\ last' = [op |-> "dict", n_args |-> n_args, arg |-> arg,
                res |-> IF n_args > 1 THEN mp_const_none ELSE pin_class_map_dict]
    /\ hwlog' = <<>>
    /\ UNCHANGED <<pin_class_mapper, pin_class_debug, hw, before>>

(* Pin.debug([state]), lines 313-319. *)
PinDebug(n_args, arg) ==
    /\ pin_class_debug' = IF n_args > 1 THEN mp_obj_is_true(arg) ELSE pin_class_debug
    /\ last' = [op |-> "debug", n_args |-> n_args, arg |-> arg,
                res |-> IF n_args > 1 THEN mp_const_none
                        ELSE IF pin_class_debug THEN mp_const_true
                        ELSE mp_const_false]
    /\ hwlog' = <<>>
    /\ UNCHANGED <<pin_class_mapper, pin_class_map_dict, hw, before>>

(* pin.init(...), lines 398-400 and 327-396. *)
PinObjInit(self, args) ==
    \E r \in {pin_obj_init_helper(self, args)} :
    \E h \in {PerformAll(HwState, r.accesses)} :
        /\ clocks' = h.clocks
        /\ iocon' = h.iocon
        /\ DIR' = h.DIR
        /\ B' = h.B
        /\ hwlog' = r.accesses
        /\ last' = [op |-> "init", self |-> self, args |-> args,
                    status |-> r.status]
        /\ UNCHANGED <<registry, before>>

Resolve   == \E x \in Identifiers : PinFind(x)
SetMapper == \E n \in {1, 2}, f \in Mappers \cup {mp_const_none} : PinMapper(n, f)
SetDict   == \E n \in {1, 2}, d \in Dicts \cup {mp_const_none} : PinMapDict(n, d)
SetDebug  == \E n \in {1, 2}, b \in {mp_const_true, mp_const_false} : PinDebug(n, b)
Configure ==
    \/ \E args \in InitArgSets : PinObjInit(PinObj("P0_4"), args)
    \/ \E args \in FewArgSets : PinObjInit(PinObj("P4_1"), args)

NextResolve == PinInit0 \/ Resolve \/ SetMapper \/ SetDict \/ SetDebug
NextConfigure == Configure

(* The class as a whole, with a few of the arguments of each call: two     *)
(* pins of one port and one of another are configured.                     *)
SomeIdentifiers == {PinObj("P0_5"), Str("X1")}
SomeArgSets ==
    {InitArgs(GPIO_MODE_INPUT, NoPull, mp_const_true, 0, FALSE, FALSE),
     InitArgs(GPIO_MODE_OUTPUT_PP, NoPull, mp_const_true, 0, FALSE, FALSE),
     InitArgs(GPIO_MODE_AF_PP, Pull(GPIO_PULLUP), MP_OBJ_NULL, 2, TRUE, FALSE)}

ResolveSome   == \E x \in SomeIdentifiers : PinFind(x)
SetMapperSome ==
    \E n \in {1, 2}, f \in {Fun("MapPin"), mp_const_none} : PinMapper(n, f)
SetDictSome   ==
    \E n \in {1, 2}, d \in {Dict("D1"), mp_const_none} : PinMapDict(n, d)
ConfigureSome ==
    \/ \E self \in {PinObj("P0_4"), PinObj("P0_5")}, args \in SomeArgSets :
          PinObjInit(self, args)
    \/ PinObjInit(PinObj("P4_1"),
                  InitArgs(GPIO_MODE_OUTPUT_PP, NoPull, mp_const_true, 0, FALSE, FALSE))

Next ==
    PinInit0 \/ ResolveSome \/ SetMapperSome \/ SetDictSome \/ SetDebug
    \/ ConfigureSome

SpecResolve   == Init /\ [][NextResolve]_vars
SpecConfigure == Init /\ [][NextConfigure]_vars
Spec          == Init /\ [][Next]_vars

----------------------------------------------------------------------------
(* Properties of pin_find *)

(* The strategies of the documented order (lines 82-89), each on its own:  *)
(* what it answers for an object, MP_OBJ_NULL when it does not match.      *)
ByPin(x)    == IF MP_OBJ_IS_TYPE(x, "pin") THEN x ELSE MP_OBJ_NULL
ByMapper(x) ==
    IF pin_class_mapper # mp_const_none
       /\ mp_call_function_1(pin_class_mapper, x) # mp_const_none
    THEN mp_call_function_1(pin_class_mapper, x) ELSE MP_OBJ_NULL
ByDict(x)   ==
    IF pin_class_map_dict # mp_const_none
    THEN mp_map_lookup(mp_obj_dict_get_map(pin_class_map_dict), x)
    ELSE MP_OBJ_NULL
ByBoard(x)  == mp_map_lookup(pin_board_pins_locals_dict, x)
ByCpu(x)    == mp_map_lookup(pin_cpu_pins_locals_dict, x)

FirstMatch(x) ==
    CASE ByPin(x) # MP_OBJ_NULL    -> [by |-> "pin", value |-> ByPin(x)]
      [] OTHER ->
    CASE ByMapper(x) # MP_OBJ_NULL -> [by |-> "mapper", value |-> ByMapper(x)]
      [] OTHER ->
    CASE ByDict(x) # MP_OBJ_NULL   -> [by |-> "dict", value |-> ByDict(x)]
      [] OTHER ->
    CASE ByBoard(x) # MP_OBJ_NULL  -> [by |-> "board", value |-> ByBoard(x)]
      [] OTHER ->
    CASE ByCpu(x) # MP_OBJ_NULL    -> [by |-> "cpu", value |-> ByCpu(x)]
      [] OTHER                     -> [by |-> "none", value |-> MP_OBJ_NULL]

Found == last.op = "find"
LastConsulted(r) == r.consulted[Len(r.consulted)]
Consulted(r, name) == \E i \in 1 .. Len(r.consulted) : r.consulted[i] = name

(* C1: pin_find answers with the first strategy that matches, in the order *)
(* pin object, mapper, dictionary, board pins, cpu pins, and consults no   *)
(* strategy after it: a pin object comes back as it is and the mapper is   *)
(* not called for it; what the mapper maps wins over the dictionary (a     *)
(* mapper answer that is not a pin object ends the call with the mapper    *)
(* error).                                                                 *)
C1_FirstMatchWins ==
    Found =>
        LET x == last.arg
            r == last.res
            m == FirstMatch(x)
        IN  /\ m.by # "none" => LastConsulted(r) = m.by
            /\ m.by \in {"pin", "dict", "board", "cpu"} =>
                   r.status = "ok" /\ r.value = m.value
            /\ m.by = "mapper" =>
                   IF MP_OBJ_IS_TYPE(m.value, "pin")
                   THEN r.status = "ok" /\ r.value = m.value
                   ELSE r.status = "InvalidMapperResult"
            /\ MP_OBJ_IS_TYPE(x, "pin") =>
                   r.status = "ok" /\ r.value = x /\ ~Consulted(r, "mapper")

(* A mapper and a dictionary that map the same name to different pins. *)
C1_Witness ==
    /\ Found
    /\ last.arg = Str("LeftMotorDir")
    /\ pin_class_mapper = Fun("MapPin")
    /\ pin_class_map_dict = Dict("D1")
    /\ last.res.status = "ok"
    /\ last.res.value = PinObj("P4_1")
    /\ ByDict(last.arg) = PinObj("P0_4")

(* C2: whatever pin_find returns is a pin object. *)
C2_ReturnsPinObject ==
    (Found /\ last.res.status = "ok") => MP_OBJ_IS_TYPE(last.res.value, "pin")

(* C4: an object that is no pin object and that no strategy matches is     *)
(* refused with InvalidIdentifier, whatever kind of object it is.          *)
C4_NoMatchIsInvalidIdentifier ==
    (Found /\ FirstMatch(last.arg).by = "none") =>
        last.res.status = "InvalidIdentifier"

(* C5: when the mapper answers none for an object, pin_find does not raise *)
(* the mapper error and ends as it ends for that object with no mapper     *)
(* installed, the dictionary being the same.                               *)
C5_MapperNoneFallsThrough ==
    (/\ Found
     /\ ~MP_OBJ_IS_TYPE(last.arg, "pin")
     /\ pin_class_mapper # mp_const_none
     /\ mp_call_function_1(pin_class_mapper, last.arg) = mp_const_none)
    => LET r == last.res
           n == pin_find(mp_const_none, pin_class_map_dict, pin_class_debug,
                         last.arg)
       IN  /\ r.status # "InvalidMapperResult"
           /\ r.status = n.status
           /\ r.value = n.value
           /\ r.printed = n.printed

(* A mapper that knows other names is asked for a name of the dictionary. *)
C5_Witness ==
    /\ Found
    /\ last.arg = Str("Motor2")
    /\ pin_class_mapper = Fun("MapPin")
    /\ pin_class_map_dict = Dict("D2")
    /\ Consulted(last.res, "mapper")
    /\ last.res.status = "ok"
    /\ last.res.value = PinObj("P4_1")

----------------------------------------------------------------------------
(* Properties of pin_obj_init_helper *)

Configured == last.op = "init" /\ last.status = "ok"
HwPin(self) == <<PinPort(self), PinPin(self)>>
DirBit(dir, self) == Bit(dir[PinPort(self)], PinPin(self))

IsMuxWrite(a, self) ==
    a.reg = "IOCON" /\ a.port = PinPort(self) /\ a.pin = PinPin(self)
IsLevelWrite(a, self) ==
    a.reg = "B" /\ a.port = PinPort(self) /\ a.pin = PinPin(self)
IsDirSet(a, self) ==
    a.reg = "DIRSET" /\ a.port = PinPort(self) /\ a.val = Shl(1, PinPin(self))

(* C3: a request with a mode or a pull outside the allowed values fails    *)
(* with InvalidMode or InvalidPull and makes no hardware access: clocks,   *)
(* IOCON, direction and level are after the call what they were before.    *)
C3_InvalidRequestTouchesNothing ==
    [][ (/\ last'.op = "init"
         /\ \/ ~IS_GPIO_MODE(last'.args.mode)
            \/ ~IS_GPIO_PULL(PullOf(last'.args)))
        => /\ last'.status = IF ~IS_GPIO_MODE(last'.args.mode)
                             THEN "InvalidMode" ELSE "InvalidPull"
           /\ hwlog' = <<>>
           /\ clocks' = clocks
           /\ iocon' = iocon
           /\ DIR' = DIR
           /\ B' = B ]_vars

(* A pull that is not allowed, asked of a pin that is an output. *)
C3_Witness ==
    /\ last.op = "init"
    /\ last.status = "InvalidPull"
    /\ last.self = PinObj("P0_4")
    /\ DirBit(DIR, last.self) = 1
    /\ hwlog = <<>>

(* C6: with alternate function 0, a mode other than INPUT and an initial   *)
(* value, the level is written to that value before the direction bit is   *)
(* set, both after the IOCON write, and the pin ends as an output.         *)
C6_LevelBeforeDirection ==
    (/\ Configured
     /\ last.args.alt = 0
     /\ last.args.mode # GPIO_MODE_INPUT
     /\ last.args.val0 # MP_OBJ_NULL)
    => LET self == last.self
           n == Len(hwlog)
           v == BoolInt(mp_obj_is_true(last.args.val0))
       IN  /\ \E i, j, k \in 1 .. n :
                 /\ i < j /\ j < k
                 /\ IsMuxWrite(hwlog[i], self)
                 /\ IsLevelWrite(hwlog[j], self) /\ hwlog[j].val = v
                 /\ IsDirSet(hwlog[k], self)
           /\ \A j, k \in 1 .. n :
                 (IsLevelWrite(hwlog[j], self) /\ IsDirSet(hwlog[k], self))
                 => j < k
           /\ \A i, j \in 1 .. n :
                 (IsMuxWrite(hwlog[i], self)
                  /\ (IsLevelWrite(hwlog[j], self) \/ IsDirSet(hwlog[j], self)))
                 => i < j
           /\ DirBit(DIR, self) = 1
           /\ B[HwPin(self)] = v

(* An open-drain free output driven high from the start. *)
C6_Witness ==
    /\ Configured
    /\ last.args.alt = 0
    /\ last.args.mode = GPIO_MODE_OUTPUT_PP
    /\ last.args.val0 = mp_const_true
    /\ B[HwPin(last.self)] = 1
    /\ DirBit(DIR, last.self) = 1

(* C7: a request with an alternate function other than 0 leaves direction, *)
(* level and the GPIO bank clocks as they were: it enables the IOCON clock *)
(* and writes the IOCON register of the pin, nothing else.                 *)
C7_AlternateLeavesGpioAlone ==
    [][ (/\ last'.op = "init"
         /\ last'.status = "ok"
         /\ last'.args.alt # 0)
        => /\ DIR' = DIR
           /\ B' = B
           /\ clocks' = clocks \cup {kCLOCK_Iocon}
           /\ \A q \in HwPins : q # HwPin(last'.self) => iocon'[q] = iocon[q]
           /\ Len(hwlog') = 2
           /\ hwlog'[1] = CLOCK_EnableClock(kCLOCK_Iocon)
           /\ IsMuxWrite(hwlog'[2], last'.self) ]_vars

(* An alternate function selected on a pin that is an output at level 1,   *)
(* with an initial value of 0 in the request.                              *)
C7_Witness ==
    /\ Configured
    /\ last.args.alt = 2
    /\ last.args.val0 = mp_const_false
    /\ DirBit(DIR, last.self) = 1
    /\ B[HwPin(last.self)] = 1

(* The pin as the last request alone leaves it when made after reset. *)
AloneAfterReset(self, args) ==
    LET h == PerformAll(HwReset, pin_obj_init_helper(self, args).accesses)
    IN  [word |-> h.iocon[HwPin(self)], dir |-> DirBit(h.DIR, self),
         level |-> h.B[HwPin(self)]]

(* C8 as stated: after any requests, IOCON word, direction and level of    *)
(* the pin are those the last request alone produces after reset.          *)
C8_LastRequestDecidesAll ==
    Configured =>
        LET alone == AloneAfterReset(last.self, last.args)
        IN  /\ iocon[HwPin(last.self)] = alone.word
            /\ DirBit(DIR, last.self) = alone.dir
            /\ B[HwPin(last.self)] = alone.level

(* C8 as the code has it: the IOCON word is that of the last request made  *)
(* alone; so is the direction when the request has alternate function 0,   *)
(* and the level when it moreover has a mode other than INPUT and an       *)
(* initial value; in the other cases direction and level stay as they were.*)
C8_LastRequestDecidesWhatItWrites ==
    [][ (last'.op = "init" /\ last'.status = "ok")
        => \E alone \in {AloneAfterReset(last'.self, last'.args)} :
           LET self == last'.self
               args == last'.args
           IN  /\ iocon'[HwPin(self)] = alone.word
               /\ DirBit(DIR', self) =
                      IF args.alt = 0 THEN alone.dir ELSE DirBit(DIR, self)
               /\ B'[HwPin(self)] =
                      IF /\ args.alt = 0
                         /\ args.mode # GPIO_MODE_INPUT
                         /\ args.val0 # MP_OBJ_NULL
                      THEN alone.level ELSE B[HwPin(self)] ]_vars

(* An output at level 1 turned into an input: the level stays. *)
C8_Witness ==
    /\ Configured
    /\ last.args.alt = 0
    /\ last.args.mode = GPIO_MODE_INPUT
    /\ DirBit(DIR, last.self) = 0
    /\ B[HwPin(last.self)] = 1

(* C10: a request that succeeds writes the IOCON register of the pin once, *)
(* with alt | (mode & 0xFFF) | 1<<8 | pull | inv<<7 | (!flt)<<9, and each  *)
(* field reads back from the word: the alternate function from the low     *)
(* bits, the pull from its two bits, bit 7 as inv, bit 8 as 1, bit 9 as    *)
(* the negation of flt, the mode bits within the word.                     *)
C10_MuxWordKeepsFields ==
    Configured =>
        LET self == last.self
            args == last.args
            w == iocon[HwPin(self)]
        IN  /\ Cardinality({i \in 1 .. Len(hwlog) : hwlog[i].reg = "IOCON"}) = 1
            /\ \E i \in 1 .. Len(hwlog) :
                  IsMuxWrite(hwlog[i], self) /\ hwlog[i].val = w
            /\ w = BitOr(args.alt, BitOr(BitAnd(args.mode, 4095),
                   BitOr(256, BitOr(PullOf(args),
                   BitOr(128 * BoolInt(args.inv), 512 * BoolInt(~args.flt))))))
            /\ w % 16 = args.alt
            /\ BitAnd(w, 48) = PullOf(args)
            /\ Bit(w, 7) = BoolInt(args.inv)
            /\ Bit(w, 8) = 1
            /\ Bit(w, 9) = BoolInt(~args.flt)
            /\ BitAnd(w, BitAnd(args.mode, 4095)) = BitAnd(args.mode, 4095)

----------------------------------------------------------------------------
(* Installing and removing the dictionary *)

SameAsBefore(r) == r.status = before.status /\ r.value = before.value

(* C9: an object that is no pin object, that the mapper does not map and   *)
(* that the dictionary has an entry for is resolved to that entry while    *)
(* the dictionary is installed; once Pin.dict(None) is called, pin_find    *)
(* ends for the object as it ended before the dictionary was installed     *)
(* (the mapper being the same): only the mapper and dictionary installed   *)
(* at the time of the call count.                                          *)
C9_DictInstallRemove ==
    /\ [](  (/\ Found
             /\ ~MP_OBJ_IS_TYPE(last.arg, "pin")
             /\ ByMapper(last.arg) = MP_OBJ_NULL
             /\ ByDict(last.arg) # MP_OBJ_NULL)
            => (last.res.status = "ok" /\ last.res.value = ByDict(last.arg)) )
    /\ [][ (/\ last.op = "dict" /\ last.n_args = 2 /\ last.arg = mp_const_none
            /\ last'.op = "find"
            /\ before.valid
            /\ last'.arg = before.arg
            /\ pin_class_mapper = before.mapper)
           => SameAsBefore(last'.res) ]_vars
    /\ [][ (/\ last'.op = "find"
            /\ pin_class_map_dict = mp_const_none
            /\ before.valid
            /\ last'.arg = before.arg
            /\ pin_class_mapper = before.mapper)
           => SameAsBefore(last'.res) ]_vars

(* A name refused before the dictionary was installed and resolved through *)
(* the dictionary now, a mapper that answers none being installed.         *)
C9_Witness ==
    /\ Found
    /\ last.arg = Str("LeftMotorDir")
    /\ pin_class_map_dict = Dict("D1")
    /\ pin_class_mapper = Fun("MapNone")
    /\ last.res.status = "ok"
    /\ last.res.value = PinObj("P0_4")
    /\ before.valid
    /\ before.arg = last.arg
    /\ before.mapper = pin_class_mapper
    /\ before.status = "InvalidIdentifier"

----------------------------------------------------------------------------
(* Direction of a GPIO pin *)

(* C11: a request that succeeds with alternate function 0 makes the pin an *)
(* input when the mode is INPUT, and then never writes the level, also     *)
(* when the request carries an initial value (the value is dropped, the    *)
(* call does not fail); with any other allowed mode the pin becomes an     *)
(* output.                                                                 *)
C11_InputDropsInitialValue ==
    [][ (/\ last'.op = "init"
         /\ IS_GPIO_MODE(last'.args.mode)
         /\ IS_GPIO_PULL(PullOf(last'.args))
         /\ last'.args.alt = 0)
        => /\ last'.status = "ok"
           /\ IF last'.args.mode = GPIO_MODE_INPUT
              THEN /\ DirBit(DIR', last'.self) = 0
                   /\ B' = B
                   /\ \A i \in 1 .. Len(hwlog') : hwlog'[i].reg # "B"
              ELSE DirBit(DIR', last'.self) = 1 ]_vars

(* An input asked with an initial value of 1: the level stays 0. *)
C11_Witness ==
    /\ Configured
    /\ last.args.alt = 0
    /\ last.args.mode = GPIO_MODE_INPUT
    /\ last.args.val0 = mp_const_true
    /\ DirBit(DIR, last.self) = 0
    /\ B[HwPin(last.self)] = 0

----------------------------------------------------------------------------
(* Clocks *)

IsClockEnable(a) == a.reg = "CLOCK"
GpioBankClocks(log) ==
    {i \in 1 .. Len(log) : IsClockEnable(log[i]) /\ log[i].val # kCLOCK_Iocon}

(* C12: a request that succeeds enables the IOCON clock before it writes   *)
(* the IOCON register; with alternate function 0 it enables one GPIO bank  *)
(* clock more, kCLOCK_Gpio0 + port for a port below 4 and                  *)
(* kCLOCK_Gpio4 + (port - 4) from port 4 on, and with another alternate    *)
(* function none; a clock that is on stays on and no call turns one off.   *)
C12_ClocksEnabled ==
    /\ [][ (last'.op = "init" /\ last'.status = "ok")
           => LET self == last'.self
                  port == PinPort(self)
                  bank == IF port < 4 THEN kCLOCK_Gpio0 + port
                          ELSE kCLOCK_Gpio4 + (port - 4)
                  log  == hwlog'
              IN  /\ \E i, j \in 1 .. Len(log) :
                        /\ i < j
                        /\ log[i] = CLOCK_EnableClock(kCLOCK_Iocon)
                        /\ IsMuxWrite(log[j], self)
                  /\ \A i, j \in 1 .. Len(log) :
                        (IsMuxWrite(log[j], self) /\ log[i].val = kCLOCK_Iocon
                         /\ IsClockEnable(log[i])) => i < j
                  /\ IF last'.args.alt = 0
                     THEN /\ Cardinality(GpioBankClocks(log)) = 1
                          /\ \A i \in GpioBankClocks(log) : log[i].val = bank
                          /\ clocks' = clocks \cup {kCLOCK_Iocon, bank}
                     ELSE /\ GpioBankClocks(log) = {}
                          /\ clocks' = clocks \cup {kCLOCK_Iocon} ]_vars
    /\ [][ clocks \subseteq clocks' ]_vars

(* The pin of port 4 configured as GPIO after the pin of port 0: the bank  *)
(* clocks of both ports and the IOCON clock are on.                        *)
C12_Witness ==
    /\ Configured
    /\ last.self = PinObj("P4_1")
    /\ last.args.alt = 0
    /\ clocks = {kCLOCK_Iocon, kCLOCK_Gpio0, kCLOCK_Gpio4}

----------------------------------------------------------------------------
(* What each call leaves alone *)

PinStateSame(q) ==
    /\ iocon'[HwPin(q)] = iocon[HwPin(q)]
    /\ DirBit(DIR', q) = DirBit(DIR, q)
    /\ B'[HwPin(q)] = B[HwPin(q)]

HwSame == clocks' = clocks /\ iocon' = iocon /\ DIR' = DIR /\ B' = B

(* C13: init of one pin changes IOCON word, direction bit and level of no  *)
(* other pin, and neither mapper, dictionary nor debug flag; pin_find,     *)
(* Pin.mapper, Pin.dict and Pin.debug change no clock and no register, and *)
(* each of the three setters changes its own class variable only.          *)
C13_CallsKeepToTheirOwn ==
    [][ /\ last'.op = "init" =>
              /\ \A q \in PinObjs : q # last'.self => PinStateSame(q)
              /\ pin_class_mapper' = pin_class_mapper
              /\ pin_class_map_dict' = pin_class_map_dict
              /\ pin_class_debug' = pin_class_debug
        /\ last'.op = "find" =>
              /\ HwSame
              /\ pin_class_mapper' = pin_class_mapper
              /\ pin_class_map_dict' = pin_class_map_dict
              /\ pin_class_debug' = pin_class_debug
        /\ last'.op = "mapper" =>
              /\ HwSame
              /\ pin_class_map_dict' = pin_class_map_dict
              /\ pin_class_debug' = pin_class_debug
        /\ last'.op = "dict" =>
              /\ HwSame
              /\ pin_class_mapper' = pin_class_mapper
              /\ pin_class_debug' = pin_class_debug
        /\ last'.op = "debug" =>
              /\ HwSame
              /\ pin_class_mapper' = pin_class_mapper
              /\ pin_class_map_dict' = pin_class_map_dict ]_vars

(* A pin made an input while the other pin of its port is an output at     *)
(* level 1 and a mapper, a dictionary and the debug flag are set.          *)
C13_Witness ==
    /\ Configured
    /\ last.self = PinObj("P0_5")
    /\ last.args.mode = GPIO_MODE_INPUT
    /\ DirBit(DIR, PinObj("P0_5")) = 0
    /\ DirBit(DIR, PinObj("P0_4")) = 1
    /\ B[HwPin(PinObj("P0_4"))] = 1
    /\ iocon[HwPin(PinObj("P0_4"))] # iocon[HwPin(PinObj("P0_5"))]
    /\ pin_class_mapper = Fun("MapPin")
    /\ pin_class_map_dict = Dict("D1")
    /\ pin_class_debug

====
